---- MODULE Spec2Model ----
(***************************************************************************)
(* Bayesian color constancy (notebooks/bayesian_color_constancy.ipynb):    *)
(* the per-pixel hypothesis store, the window refinement pass, the         *)
(* likelihood evaluation, the spectrum refresh and the pruning step of the *)
(* main loop, as a state machine.                                          *)
(*                                                                         *)
(* Numbers.  The notebook computes in float64 with MODEL_DIMENSIONS = 2.   *)
(* Here every quantity is an integer, a quotient of the code is an integer *)
(* division, the reduced basis has one dimension (a reflectance is one     *)
(* coefficient per color channel, a spectrum is one coefficient) and every *)
(* covariance matrix is a multiple of the identity, given by its inverse   *)
(* (a precision).  Reflectance and spectrum coefficients are fixed-point   *)
(* numbers, FixedPoint units to 1.0; F2 and F4 are the powers of that unit *)
(* by which the quotients of the estimators are expanded.  Colors are in   *)
(* units of ColorUnit 8-bit levels.  float64's inf                         *)
(* and nan are kept as the two values NegInf and NaN, because the sort of  *)
(* update_hypothesises sees them.  The images drawn have no black pixel    *)
(* and keep every illumination estimate above zero (IlluminationPositive), *)
(* as float64 does on such images, so update_sigma never divides by zero.  *)
(* Ranks: the code's rank r of a pixel is element r + 1 of a sequence.     *)
(***************************************************************************)
EXTENDS Integers, Sequences, FiniteSets, TLC

\* ---------------------------------------------------------------- bounds
\* number of materials of the configuration under check (the notebook lists 4)
NUM_MATERIALS == 2
\* largest image width and height drawn in Init
MaxWidth == 3
MaxHeight == 2
\* largest window size drawn in Init
MaxWindow == 2
\* fixed-point units to 1.0 of a reflectance or spectrum coefficient
FixedPoint == 4
\* 8-bit color levels to one color unit of the model
ColorUnit == 4

F2 == FixedPoint * FixedPoint
F4 == F2 * F2

\* ------------------------------------------------------ program constants
INDEX_BEST_HYPOTHESIS == 0
NUM_COLORS == 3
NUM_LIGHT_SOURCES == 2
\* sigma_p = np.diag([10, 10, 10]): the diagonal entry
sigma_p == 10
\* float64 -inf and nan as they occur in log_N_singledim with std = 0
NegInf == -2000000000
NaN == 2000000000

NUM_HYPOTHESISES == NUM_MATERIALS * NUM_LIGHT_SOURCES

Materials == 0 .. NUM_MATERIALS - 1
LightSources == 0 .. NUM_LIGHT_SOURCES - 1

\* itertools.product(range(NUM_MATERIALS), range(NUM_LIGHT_SOURCES)), h from 0
MATERIALS_LIGHT_SOURCE_COMBINATIONS(h) ==
    << h \div NUM_LIGHT_SOURCES, h % NUM_LIGHT_SOURCES >>

\* --------------------------------------------------------------- helpers
RECURSIVE SumSeq(_)
SumSeq(s) == IF s = << >> THEN 0 ELSE Head(s) + SumSeq(Tail(s))

Dot(a, b) == SumSeq([c \in 1 .. NUM_COLORS |-> a[c] * b[c]])

Min(a, b) == IF a < b THEN a ELSE b

\* the root of n lies in lo .. hi - 1
RECURSIVE ISqrtIn(_, _, _)
ISqrtIn(n, lo, hi) ==
    IF hi - lo <= 1 THEN lo
    ELSE LET mid == (lo + hi) \div 2
         IN  IF mid * mid <= n THEN ISqrtIn(n, mid, hi) ELSE ISqrtIn(n, lo, mid)

\* math.sqrt / np.sqrt, rounded down
ISqrt(n) == ISqrtIn(n, 0, Min(n, 46340) + 1)

\* ------------------------------------------- calibration (fixed tables)
\* get_mean_color_chart(): the chart in 8-bit color levels, [o][w] from 1
mean_color_chart_levels ==
    << << << 92, 190, 120 >>, << 250, 255, 255 >> >>,
       << << 150, 220, 215 >>, << 255, 255, 255 >> >>,
       << << 80, 210, 240 >>, << 210, 255, 255 >> >>,
       << << 30, 200, 210 >>, << 65, 255, 250 >> >> >>

\* mean_color_chart[o, w, :], in color units
mean_color_chart(o, w) ==
    [c \in 1 .. NUM_COLORS |-> mean_color_chart_levels[o + 1][w + 1][c] \div ColorUnit]

\* Rs[o, w, :, :].mean(axis=1): the reflectance a hypothesis starts with
Rs_mean(o, w) == << 4 + o, 5, 4 + w >>

\* estimate_sigma_distribution: reflectance prior per material
sigma_distribution_mean(o) == << 4 + o, 5, 5 >>

\* inverse of the (isotropic) reflectance covariance sigma_distribution_std[o]
sigma_distribution_prec(o) == 1000 + 200 * o

\* estimate_beta_hats: the spectrum each light source starts with
beta_hats_init(w) == 2 + w

\* estimate_beta_distribution: spectrum prior per light source
beta_distribution_mean(w) == 2 + w

\* inverse of the spectrum covariance beta_distribution_std[w]
beta_distribution_prec(w) == 1000

\* observed pixel colors (8-bit levels) the images are drawn from: two near
\* the mean colors of the first light source, two near those of the second
Palette == << << 90, 180, 120 >>, << 250, 250, 250 >>,
              << 150, 215, 210 >>, << 200, 250, 250 >> >>

\* ------------------------------------------------------------ distances
\* squared euclidean distance, no root
color_angle_distance(color1, color2) ==
    SumSeq([i \in 1 .. 3 |-> (color1[i] - color2[i]) * (color1[i] - color2[i])])

color_metric(color) == ISqrt(color_angle_distance(<< 0, 0, 0 >>, color))

\* math.log, rounded down to a whole number of doublings
RECURSIVE ILog2(_)
ILog2(n) == IF n < 2 THEN 0 ELSE 1 + ILog2(n \div 2)

\* ------------------------------------------------- sorted() / list.sort
\* float comparison: every comparison with nan is false
ISLT(a, b) == a # NaN /\ b # NaN /\ a < b

\* listobject.c count_run: last position of the run that starts at position 1
RECURSIVE count_run(_, _, _)
count_run(k, i, descending) ==
    IF i > Len(k) THEN Len(k)
    ELSE IF ISLT(k[i], k[i - 1]) = descending
         THEN count_run(k, i + 1, descending)
         ELSE i - 1

\* listobject.c binarysort, inner loop: where the pivot goes in s[l .. r-1]
RECURSIVE binary_position(_, _, _, _, _)
binary_position(k, s, pivot, l, r) ==
    IF l >= r THEN l
    ELSE LET p == l + ((r - l) \div 2)
         IN  IF ISLT(k[pivot], k[s[p]])
             THEN binary_position(k, s, pivot, l, p)
             ELSE binary_position(k, s, pivot, p + 1, r)

\* listobject.c binarysort, outer loop: s is sorted, positions start .. Len(k) follow
RECURSIVE binarysort(_, _, _)
binarysort(k, s, start) ==
    IF start > Len(k) THEN s
    ELSE LET pos == binary_position(k, s, start, 1, Len(s) + 1)
         IN  binarysort(k,
                        SubSeq(s, 1, pos - 1) \o << start >> \o SubSeq(s, pos, Len(s)),
                        start + 1)

\* sorted(range(n), key=lambda i: k[i]) for n < 64 (one run, then binary
\* insertion): the positions 1 .. Len(k) of k in the order the sort leaves them
sorted(k) ==
    IF Len(k) < 2 THEN [i \in 1 .. Len(k) |-> i]
    ELSE LET descending == ISLT(k[2], k[1])
             n == count_run(k, 3, descending)
             run == [i \in 1 .. n |-> IF descending THEN n + 1 - i ELSE i]
         IN  binarysort(k, run, n + 1)

\* ------------------------------------------------------- initialization
\* fault: the hypotheses left in the order of the combinations, not sorted
init_pixel_hypothesises_unsorted(pixel) ==
    LET comb(rank) == MATERIALS_LIGHT_SOURCE_COMBINATIONS(rank - 1)
    IN  [o     |-> [rank \in 1 .. NUM_HYPOTHESISES |-> comb(rank)[1]],
         w     |-> [rank \in 1 .. NUM_HYPOTHESISES |-> comb(rank)[2]],
         sigma |-> [rank \in 1 .. NUM_HYPOTHESISES |->
                      Rs_mean(comb(rank)[1], comb(rank)[2])],
         g     |-> [rank \in 1 .. NUM_HYPOTHESISES |->
                      Dot(pixel, mean_color_chart(comb(rank)[1], comb(rank)[2]))
                        \div color_metric(mean_color_chart(comb(rank)[1], comb(rank)[2]))]]

\* one pixel of init_pixel_hypothesises: the four rows of the pixel
init_pixel_hypothesises(pixel) ==
    LET distances == [h \in 1 .. NUM_HYPOTHESISES |->
                        LET c == MATERIALS_LIGHT_SOURCE_COMBINATIONS(h - 1)
                        IN  color_angle_distance(pixel, mean_color_chart(c[1], c[2]))]
        hypothesises == sorted(distances)
        comb(rank) == MATERIALS_LIGHT_SOURCE_COMBINATIONS(hypothesises[rank] - 1)
    IN  [o     |-> [rank \in 1 .. NUM_HYPOTHESISES |-> comb(rank)[1]],
         w     |-> [rank \in 1 .. NUM_HYPOTHESISES |-> comb(rank)[2]],
         sigma |-> [rank \in 1 .. NUM_HYPOTHESISES |->
                      Rs_mean(comb(rank)[1], comb(rank)[2])],
         g     |-> [rank \in 1 .. NUM_HYPOTHESISES |->
                      Dot(pixel, mean_color_chart(comb(rank)[1], comb(rank)[2]))
                        \div color_metric(mean_color_chart(comb(rank)[1], comb(rank)[2]))]]

\* ------------------------------------------- illumination distribution
\* [g[i] for i in pixels_predicting_light_source]
RECURSIVE pixels_predicting(_, _, _)
pixels_predicting(g, w, light_source) ==
    IF g = << >> THEN << >>
    ELSE (IF Head(w) = light_source THEN << Head(g) >> ELSE << >>)
         \o pixels_predicting(Tail(g), Tail(w), light_source)

\* gw.mean()
mean(gw) == SumSeq(gw) \div Len(gw)

\* np.std(gw): root of the mean squared deviation from the mean
std(gw) ==
    ISqrt(SumSeq([i \in 1 .. Len(gw) |-> (gw[i] - mean(gw)) * (gw[i] - mean(gw))])
            \div Len(gw))

\* fault: the defaults set once before the loop over the light sources, so a
\* light source without votes keeps the values of the light source before it
estimate_g_distriution_defaults_before_loop(g, w) ==
    LET voted(light_source) == Len(pixels_predicting(g, w, light_source)) # 0
        last(light_source) ==
            IF \E l \in 0 .. light_source : voted(l)
            THEN CHOOSE l \in 0 .. light_source :
                    voted(l) /\ \A m \in l + 1 .. light_source : ~voted(m)
            ELSE -1
    IN  [mu_g  |-> [light_source \in LightSources |->
                      IF last(light_source) < 0 THEN 0
                      ELSE mean(pixels_predicting(g, w, last(light_source)))],
         std_g |-> [light_source \in LightSources |->
                      IF last(light_source) < 0 THEN 1
                      ELSE std(pixels_predicting(g, w, last(light_source)))]]

\* estimate_g_distriution(g, w): g and w are the rank-0 values of the listed pixels
estimate_g_distriution(g, w) ==
    [mu_g  |-> [light_source \in LightSources |->
                  LET gw == pixels_predicting(g, w, light_source)
                  IN  IF Len(gw) # 0 THEN mean(gw) ELSE 0],
     std_g |-> [light_source \in LightSources |->
                  LET gw == pixels_predicting(g, w, light_source)
                  IN  IF Len(gw) # 0 THEN std(gw) ELSE 1]]

\* ------------------------------------------------------------ estimators
\* update_sigma: K1 @ mu_o + K2 @ inv(sigma_p) @ pixel, per color channel
\* (K3 = g^2 / (sigma_p + g^2 beta^2 Sigma_o), Sigma_o = 1 / prec_o)
update_sigma(g, beta, prec_o, mu_o, pixel) ==
    [c \in 1 .. NUM_COLORS |->
        (F2 * sigma_p * prec_o * mu_o[c] + F2 * g * beta * pixel[c])
          \div (F2 * sigma_p * prec_o + g * g * beta * beta)]

\* update_g: g_nom / g_denom, both multiplied by sigma_p; w is the global w
update_g(mu, cov, pixel, S, beta, w) ==
    (F4 * sigma_p * mu[w] + F2 * cov[w] * cov[w] * beta * Dot(pixel, S))
      \div (F4 * sigma_p + cov[w] * cov[w] * beta * beta * Dot(S, S))

\* --------------------------------------------------------------- state
VARIABLES
    IMAGE_WIDTH, IMAGE_HEIGHT,      \* size of the image
    img,                            \* pixel index -> observed color
    MACRO_REGION_X, MACRO_REGION_Y, \* region of interest, << start, end >>
    WINDOW_X_SIZE, WINDOW_Y_SIZE, OVERLAPPING,
    pixel_o, pixel_w,               \* pixel -> row of materials / light sources
    pixel_sigma, pixel_g,           \* pixel -> row of [v: estimate, of: the
                                    \*   (o, w) the estimate was computed for]
    beta_hats,                      \* light source -> spectrum estimate
    mu_g, std_g,                    \* light source -> illumination distribution
    likelihoods,                    \* pixel -> row of log-likelihoods
    iteration,                      \* iterations of the main loop completed
    pc,                             \* statement of the main loop to run next
    window_x, window_y,             \* window the refinement pass is at
    pixel_indizes_patch,            \* pixel indices of the last window
    mu_g_patch, std_g_patch,        \* illumination distribution of the last window
    error,                          \* exception that ended the run, or "none"
    beta_epoch,                     \* spectrum refreshes completed
    lik_epoch,                      \* beta_epoch when likelihoods was computed
    pass_g                          \* pixel -> rank-0 illumination at the start
                                    \*   of the refinement pass

vars == << IMAGE_WIDTH, IMAGE_HEIGHT, img, MACRO_REGION_X, MACRO_REGION_Y,
           WINDOW_X_SIZE, WINDOW_Y_SIZE, OVERLAPPING, pixel_o, pixel_w,
           pixel_sigma, pixel_g, beta_hats, mu_g, std_g, likelihoods, iteration,
           pc, window_x, window_y, pixel_indizes_patch, mu_g_patch, std_g_patch,
           error, beta_epoch, lik_epoch, pass_g >>

NUM_PIXEL == IMAGE_WIDTH * IMAGE_HEIGHT

Pixels == 0 .. NUM_PIXEL - 1

num_hypothesises_remaining == NUM_HYPOTHESISES - iteration

\* arr[pixel_indizes, INDEX_BEST_HYPOTHESIS] for a row store arr
best_of(arr, pixel_indizes) ==
    [i \in 1 .. Len(pixel_indizes) |-> arr[pixel_indizes[i]][INDEX_BEST_HYPOTHESIS + 1]]

\* pixel_g[pixel_indizes, INDEX_BEST_HYPOTHESIS]
best_g(g, pixel_indizes) ==
    [i \in 1 .. Len(pixel_indizes) |-> g[pixel_indizes[i]][INDEX_BEST_HYPOTHESIS + 1].v]

\* ------------------------------------------------------ window scheduler
\* [py * width + px for px in range(x_start, x_end) for py in range(y_start, y_end)]
flatten_indizes(x_start, x_end, y_start, y_end, width) ==
    IF x_end <= x_start \/ y_end <= y_start THEN << >>
    ELSE LET ny == y_end - y_start
         IN  [k \in 1 .. (x_end - x_start) * ny |->
                (y_start + ((k - 1) % ny)) * width + (x_start + ((k - 1) \div ny))]

\* fault: the window not cut at its size, it runs to the edge of the image
window_indizes_to_image_edge(wx, wy) ==
    flatten_indizes(wx, IMAGE_WIDTH, wy, IMAGE_HEIGHT, IMAGE_WIDTH)

\* the pixels of the window at (wx, wy): the call of flatten_indizes in the loop
window_indizes(wx, wy) ==
    flatten_indizes(wx, Min(wx + WINDOW_X_SIZE, IMAGE_WIDTH),
                    wy, Min(wy + WINDOW_Y_SIZE, IMAGE_HEIGHT), IMAGE_WIDTH)

\* step of both range() calls of the window loops
window_step == WINDOW_X_SIZE - OVERLAPPING

\* --------------------------------------------------------- refinement
\* body of `for hi in range(num_hypothesises_remaining)` for pixel pi, on the
\* rows sigma and g of the pixel.  S is a view of pixel_sigma[pi, hi], so
\* update_g reads the reflectance update_sigma has just written.
refine_pixel(pi, sigma, g, mu_patch, std_patch) ==
    LET new_sigma == [hi \in 1 .. Len(sigma) |->
            update_sigma(g[hi].v, beta_hats[pixel_w[pi][hi]],
                         sigma_distribution_prec(pixel_o[pi][hi]),
                         sigma_distribution_mean(pixel_o[pi][hi]), img[pi])]
        of(hi) == << pixel_o[pi][hi], pixel_w[pi][hi] >>
    IN  [sigma |-> [hi \in 1 .. Len(sigma) |-> [v |-> new_sigma[hi], of |-> of(hi)]],
         g     |-> [hi \in 1 .. Len(g) |->
                      [v  |-> update_g(mu_patch, std_patch, img[pi], new_sigma[hi],
                                       beta_hats[pixel_w[pi][hi]], pixel_w[pi][hi]),
                       of |-> of(hi)]]]

\* fault: the illumination distribution of the window estimated again before
\* every pixel, from the stores as the pixels before it left them
RECURSIVE refine_patch_estimating_per_pixel(_, _, _, _)
refine_patch_estimating_per_pixel(st, patch, mu_patch, std_patch) ==
    IF patch = << >> THEN st
    ELSE LET pi == Head(patch)
             window == window_indizes(window_x, window_y)
             d == estimate_g_distriution(best_g(st.g, window), best_of(pixel_w, window))
             r == refine_pixel(pi, st.sigma[pi], st.g[pi], d.mu_g, d.std_g)
         IN  refine_patch_estimating_per_pixel(
                 [sigma |-> [st.sigma EXCEPT ![pi] = r.sigma],
                  g     |-> [st.g EXCEPT ![pi] = r.g]],
                 Tail(patch), mu_patch, std_patch)

\* `for pi in pixel_indizes_patch`, one pixel after the other, on the stores st
RECURSIVE refine_patch(_, _, _, _)
refine_patch(st, patch, mu_patch, std_patch) ==
    IF patch = << >> THEN st
    ELSE LET pi == Head(patch)
             r  == refine_pixel(pi, st.sigma[pi], st.g[pi], mu_patch, std_patch)
         IN  refine_patch([sigma |-> [st.sigma EXCEPT ![pi] = r.sigma],
                           g     |-> [st.g EXCEPT ![pi] = r.g]],
                          Tail(patch), mu_patch, std_patch)

\* ---------------------------------------------------------- likelihoods
\* float addition with -inf and nan
fadd(a, b) ==
    IF a = NaN \/ b = NaN THEN NaN
    ELSE IF a = NegInf \/ b = NegInf THEN NegInf
    ELSE a + b

\* the log-densities are doubled and the 2 pi terms left out (the same shift
\* for every hypothesis); cov is isotropic and given by its inverse prec
log_N_multidim(value, mu, prec) ==
    Len(value) * ILog2(prec)
      - prec * SumSeq([i \in 1 .. Len(value) |-> (value[i] - mu[i]) * (value[i] - mu[i])])

\* observation term: covariance sigma_p (its log determinant is the same shift
\* for every hypothesis)
log_N_pixel(pixel, mu) ==
    0 - (SumSeq([i \in 1 .. NUM_COLORS |-> (pixel[i] - mu[i]) * (pixel[i] - mu[i])])
           \div sigma_p)

\* -0.5 * std + (-0.5 * (1 / std) * (value - mu) ** 2), doubled; 1 / std is inf
\* for std = 0, and inf * 0 is nan
log_N_singledim(value, mu, sd) ==
    IF sd = 0 THEN (IF value = mu THEN NaN ELSE NegInf)
    ELSE 0 - sd - (((value - mu) * (value - mu)) \div sd)

\* p_p + p_beta + p_S + p_g of calc_log_likelihoods for hypothesis hi of pixel
\* pi, p_g under the illumination distribution (mu, sd); p_w[w] + p_o[o] is
\* uniform (the same shift for every hypothesis) and left out
log_likelihood_under(pi, hi, mu, sd) ==
    LET o == pixel_o[pi][hi]
        w == pixel_w[pi][hi]
        S == pixel_sigma[pi][hi].v
        p_p == log_N_pixel(img[pi],
                           [c \in 1 .. NUM_COLORS |->
                              (pixel_g[pi][hi].v * S[c] * beta_hats[w]) \div F2])
        p_S == log_N_multidim(S, sigma_distribution_mean(o), sigma_distribution_prec(o))
        p_g == log_N_singledim(pixel_g[pi][hi].v, mu[w], sd[w])
        p_beta == log_N_multidim(<< beta_hats[w] >>, << beta_distribution_mean(w) >>,
                                 beta_distribution_prec(w))
    IN  fadd(fadd(fadd(p_p, p_beta), p_S), p_g)

\* estimate_g_distriution(pixel_g[:, INDEX_BEST_HYPOTHESIS],
\*                        pixel_w[:, INDEX_BEST_HYPOTHESIS]) on the stores as they are
g_distribution_now ==
    LET all == [i \in 1 .. NUM_PIXEL |-> i - 1]
    IN  estimate_g_distriution(best_g(pixel_g, all), best_of(pixel_w, all))

\* fault: mu_g, std_g estimated again before the likelihoods are evaluated
log_likelihood_reestimating(pi, hi) ==
    log_likelihood_under(pi, hi, g_distribution_now.mu_g, g_distribution_now.std_g)

\* likelihoods[pi, hi] of calc_log_likelihoods: p_g reads the globals mu_g, std_g
log_likelihood(pi, hi) == log_likelihood_under(pi, hi, mu_g, std_g)

calc_log_likelihoods ==
    [pi \in Pixels |-> [hi \in 1 .. num_hypothesises_remaining |-> log_likelihood(pi, hi)]]

\* ------------------------------------------------------ spectrum refresh
\* fault: a pixel votes for every light source one of its hypotheses names
RECURSIVE update_betas_any_rank(_, _)
update_betas_any_rank(betas, light_source) ==
    IF light_source >= NUM_LIGHT_SOURCES THEN [beta_hats |-> betas, error |-> "none"]
    ELSE LET votes(pi) == \E r \in 1 .. Len(pixel_w[pi]) : pixel_w[pi][r] = light_source
             n == Cardinality({pi \in Pixels : votes(pi)})
             S(pi) == pixel_sigma[pi][1].v
             g(pi) == pixel_g[pi][1].v
             h == SumSeq([i \in 1 .. NUM_PIXEL |->
                            IF votes(i - 1)
                            THEN g(i - 1) * g(i - 1) * sigma_p * Dot(S(i - 1), S(i - 1))
                            ELSE 0])
                  + F2 * n * beta_distribution_prec(light_source)
             b == SumSeq([i \in 1 .. NUM_PIXEL |->
                            IF votes(i - 1)
                            THEN g(i - 1) * sigma_p * Dot(S(i - 1), img[i - 1])
                            ELSE 0])
                  + n * beta_distribution_prec(light_source)
                      * beta_distribution_mean(light_source)
         IN  IF h = 0 THEN [beta_hats |-> betas, error |-> "LinAlgError"]
             ELSE update_betas_any_rank([betas EXCEPT ![light_source] = (F2 * b) \div h],
                                        light_source + 1)

\* update_betas from light source light_source on: the spectra are written in
\* place one light source after the other; np.linalg.inv(h) raises LinAlgError
\* for h = 0 and leaves the later light sources unwritten.  h and b are F2
\* times the code's (reflectances in fixed point), the quotient F2 * b / h the
\* spectrum in fixed point
RECURSIVE update_betas(_, _)
update_betas(betas, light_source) ==
    IF light_source >= NUM_LIGHT_SOURCES THEN [beta_hats |-> betas, error |-> "none"]
    ELSE LET votes(pi) == pixel_w[pi][INDEX_BEST_HYPOTHESIS + 1] = light_source
             n == Cardinality({pi \in Pixels : votes(pi)})
             S(pi) == pixel_sigma[pi][1].v
             g(pi) == pixel_g[pi][1].v
             h == SumSeq([i \in 1 .. NUM_PIXEL |->
                            IF votes(i - 1)
                            THEN g(i - 1) * g(i - 1) * sigma_p * Dot(S(i - 1), S(i - 1))
                            ELSE 0])
                  + F2 * n * beta_distribution_prec(light_source)
             b == SumSeq([i \in 1 .. NUM_PIXEL |->
                            IF votes(i - 1)
                            THEN g(i - 1) * sigma_p * Dot(S(i - 1), img[i - 1])
                            ELSE 0])
                  + n * beta_distribution_prec(light_source)
                      * beta_distribution_mean(light_source)
         IN  IF h = 0 THEN [beta_hats |-> betas, error |-> "LinAlgError"]
             ELSE update_betas([betas EXCEPT ![light_source] = (F2 * b) \div h],
                               light_source + 1)

\* -------------------------------------------------------------- pruning
\* row[sorted_likelihoods]
gather(row, index) == [j \in 1 .. Len(index) |-> row[index[j]]]

\* fault: removal only, the survivors left in the order they had
sorted_likelihoods_removal_only(pi) ==
    LET order == sorted(likelihoods[pi])
        last == order[Len(order)]
    IN  SelectSeq([i \in 1 .. Len(order) |-> i], LAMBDA i : i # last)

\* fault: the slice [:-2], which drops two hypotheses
sorted_likelihoods_dropping_two(pi) ==
    LET order == sorted(likelihoods[pi])
    IN  SubSeq(order, 1, Len(pixel_o[pi]) - 2)

\* sorted(range(n), key=lambda i: likelihoods[pi, i])[:-1], n = pixel_o.shape[1]
sorted_likelihoods(pi) ==
    LET order == sorted(likelihoods[pi])
    IN  SubSeq(order, 1, Len(pixel_o[pi]) - 1)

\* fault: pixel_g copied without the reordering, its first n - 1 entries kept
update_hypothesises_g_not_reordered(pi) ==
    LET index == sorted_likelihoods(pi)
    IN  [o     |-> gather(pixel_o[pi], index),
         w     |-> gather(pixel_w[pi], index),
         sigma |-> gather(pixel_sigma[pi], index),
         g     |-> SubSeq(pixel_g[pi], 1, Len(index))]

\* body of `for pi in range(NUM_PIXEL)` of update_hypothesises: the new rows
update_hypothesises(pi) ==
    LET index == sorted_likelihoods(pi)
    IN  [o     |-> gather(pixel_o[pi], index),
         w     |-> gather(pixel_w[pi], index),
         sigma |-> gather(pixel_sigma[pi], index),
         g     |-> gather(pixel_g[pi], index)]

\* ------------------------------------------------------------ main loop
\* fault: the spectrum refresh moved before the likelihood evaluation
next_statement_betas_first(statement) ==
    CASE statement = "windows" -> "betas"
      [] statement = "betas" -> "likelihoods"
      [] statement = "likelihoods" -> "prune"
      [] statement = "prune" -> "windows"

\* the statements of one iteration of `for iteration in range(NUM_HYPOTHESISES - 1)`
next_statement(statement) ==
    CASE statement = "windows" -> "likelihoods"
      [] statement = "likelihoods" -> "betas"
      [] statement = "betas" -> "prune"
      [] statement = "prune" -> "windows"

\* the images drawn: pixel i has color first + i * stride of the palette
pattern_image(W, H, first, stride) ==
    [i \in 0 .. W * H - 1 |->
        [c \in 1 .. NUM_COLORS |->
            Palette[((first + i * stride) % Len(Palette)) + 1][c] \div ColorUnit]]

Init ==
    \E W \in 1 .. MaxWidth, H \in 1 .. MaxHeight :
    \E first \in 0 .. Len(Palette) - 1, stride \in 0 .. Len(Palette) - 1 :
    \E image \in { pattern_image(W, H, first, stride) } :
    \E rx \in 1 .. MaxWidth, ry \in 1 .. MaxHeight :
    \E size \in 1 .. MaxWindow, overlap \in 0 .. MaxWindow - 1 :
       /\ overlap < size
       /\ \/ first = 0 /\ stride = 1
          \/ rx = W /\ ry = H /\ size = 2 /\ overlap = 1
       /\ IMAGE_WIDTH = W
       /\ IMAGE_HEIGHT = H
       /\ img = image
       /\ MACRO_REGION_X = << 0, rx >>
       /\ MACRO_REGION_Y = << 0, ry >>
       /\ WINDOW_X_SIZE = size
       /\ WINDOW_Y_SIZE = size
       /\ OVERLAPPING = overlap
       /\ \E rows \in {[pi \in 0 .. W * H - 1 |-> init_pixel_hypothesises(image[pi])]} :
          LET of(pi) == [rank \in 1 .. NUM_HYPOTHESISES |->
                           << rows[pi].o[rank], rows[pi].w[rank] >>]
              d == estimate_g_distriution(
                       [i \in 1 .. W * H |-> rows[i - 1].g[INDEX_BEST_HYPOTHESIS + 1]],
                       [i \in 1 .. W * H |-> rows[i - 1].w[INDEX_BEST_HYPOTHESIS + 1]])
          IN  /\ pixel_o = [pi \in 0 .. W * H - 1 |-> rows[pi].o]
              /\ pixel_w = [pi \in 0 .. W * H - 1 |-> rows[pi].w]
              /\ pixel_sigma = [pi \in 0 .. W * H - 1 |->
                    [rank \in 1 .. NUM_HYPOTHESISES |->
                       [v |-> rows[pi].sigma[rank], of |-> of(pi)[rank]]]]
              /\ pixel_g = [pi \in 0 .. W * H - 1 |->
                    [rank \in 1 .. NUM_HYPOTHESISES |->
                       [v |-> rows[pi].g[rank], of |-> of(pi)[rank]]]]
              /\ mu_g = d.mu_g
              /\ std_g = d.std_g
              /\ pass_g = [pi \in 0 .. W * H - 1 |-> rows[pi].g[INDEX_BEST_HYPOTHESIS + 1]]
       /\ beta_hats = [w \in LightSources |-> beta_hats_init(w)]
       /\ likelihoods = [pi \in 0 .. W * H - 1 |-> << >>]
       /\ iteration = 0
       /\ pc = "windows"
       /\ window_x = 0
       /\ window_y = 0
       /\ pixel_indizes_patch = << >>
       /\ mu_g_patch = [w \in LightSources |-> 0]
       /\ std_g_patch = [w \in LightSources |-> 1]
       /\ error = "none"
       /\ beta_epoch = 0
       /\ lik_epoch = 0

config == << IMAGE_WIDTH, IMAGE_HEIGHT, img, MACRO_REGION_X, MACRO_REGION_Y,
             WINDOW_X_SIZE, WINDOW_Y_SIZE, OVERLAPPING, mu_g, std_g >>

\* one window of the refinement pass: its pixels, its illumination
\* distribution, the refinement of its pixels, then the next window
Window ==
    /\ pc = "windows"
    /\ LET patch == window_indizes(window_x, window_y)
           d == estimate_g_distriution(best_g(pixel_g, patch), best_of(pixel_w, patch))
           st == refine_patch([sigma |-> pixel_sigma, g |-> pixel_g], patch,
                              d.mu_g, d.std_g)
       IN  /\ pixel_indizes_patch' = patch
           /\ mu_g_patch' = d.mu_g
           /\ std_g_patch' = d.std_g
           /\ pixel_sigma' = st.sigma
           /\ pixel_g' = st.g
    /\ IF window_y + window_step <= MACRO_REGION_Y[2]
       THEN /\ window_y' = window_y + window_step
            /\ UNCHANGED << window_x, pc >>
       ELSE IF window_x + window_step <= MACRO_REGION_X[2]
            THEN /\ window_x' = window_x + window_step
                 /\ window_y' = MACRO_REGION_Y[1]
                 /\ UNCHANGED pc
            ELSE /\ pc' = next_statement(pc)
                 /\ UNCHANGED << window_x, window_y >>
    /\ UNCHANGED << config, pixel_o, pixel_w, beta_hats, likelihoods, iteration,
                    error, beta_epoch, lik_epoch, pass_g >>

\* likelihoods = calc_log_likelihoods(img, num_hypothesises_remaining)
CalcLogLikelihoods ==
    /\ pc = "likelihoods"
    /\ likelihoods' = calc_log_likelihoods
    /\ lik_epoch' = beta_epoch
    /\ pc' = next_statement(pc)
    /\ UNCHANGED << config, pixel_o, pixel_w, pixel_sigma, pixel_g, beta_hats,
                    iteration, window_x, window_y, pixel_indizes_patch, mu_g_patch,
                    std_g_patch, error, beta_epoch, pass_g >>

\* beta_hats = update_betas(...)
UpdateBetas ==
    /\ pc = "betas"
    /\ LET r == update_betas(beta_hats, 0)
       IN  /\ beta_hats' = r.beta_hats
           /\ error' = r.error
           /\ IF r.error = "none"
              THEN pc' = next_statement(pc) /\ beta_epoch' = beta_epoch + 1
              ELSE pc' = "error" /\ UNCHANGED beta_epoch
    /\ UNCHANGED << config, pixel_o, pixel_w, pixel_sigma, pixel_g, likelihoods,
                    iteration, window_x, window_y, pixel_indizes_patch, mu_g_patch,
                    std_g_patch, lik_epoch, pass_g >>

\* pixel_o, pixel_w, pixel_sigma, pixel_g = update_hypothesises(...), and the
\* end of the iteration
UpdateHypothesises ==
    /\ pc = "prune"
    /\ LET new == [pi \in Pixels |-> update_hypothesises(pi)]
       IN  /\ pixel_o' = [pi \in Pixels |-> new[pi].o]
           /\ pixel_w' = [pi \in Pixels |-> new[pi].w]
           /\ pixel_sigma' = [pi \in Pixels |-> new[pi].sigma]
           /\ pixel_g' = [pi \in Pixels |-> new[pi].g]
    /\ iteration' = iteration + 1
    /\ pass_g' = [pi \in Pixels |-> pixel_g'[pi][INDEX_BEST_HYPOTHESIS + 1].v]
    /\ IF iteration + 1 < NUM_HYPOTHESISES - 1
       THEN /\ pc' = next_statement(pc)
            /\ window_x' = MACRO_REGION_X[1]
            /\ window_y' = MACRO_REGION_Y[1]
       ELSE /\ pc' = "done"
            /\ UNCHANGED << window_x, window_y >>
    /\ UNCHANGED << config, beta_hats, likelihoods, pixel_indizes_patch, mu_g_patch,
                    std_g_patch, error, beta_epoch, lik_epoch >>

Next == Window \/ CalcLogLikelihoods \/ UpdateBetas \/ UpdateHypothesises

Spec == Init /\ [][Next]_vars

\* the estimators never see an illumination estimate of zero
IlluminationPositive ==
    \A pi \in Pixels : \A hi \in 1 .. Len(pixel_g[pi]) : pixel_g[pi][hi].v > 0

\* ================================================================ claims
\* the (material, light source) pairs of the rows o and w of one pixel
pairs(o, w) == { << o[r], w[r] >> : r \in 1 .. Len(o) }

\* every entry of a likelihood row is a finite number
finite(row) == \A r \in 1 .. Len(row) : row[r] # NaN /\ row[r] # NegInf

\* the ranks pixel pi held before a step whose hypotheses it no longer holds after
removed(pi) ==
    { r \in 1 .. Len(pixel_o[pi]) :
        << pixel_o[pi][r], pixel_w[pi][r] >> \notin pairs(pixel_o'[pi], pixel_w'[pi]) }

\* the rank pixel pi held, before a step, the hypothesis it holds at rank j after
rank_before(pi, j) ==
    CHOOSE r \in 1 .. Len(pixel_o[pi]) :
        << pixel_o[pi][r], pixel_w[pi][r] >> = << pixel_o'[pi][j], pixel_w'[pi][j] >>

\* C1: pruning removes exactly one hypothesis of every pixel, and on a row of
\* finite likelihoods the removed one has the minimum likelihood of the row
\* as calc_log_likelihoods computed it in this iteration
C1_PruneRemovesMinimum ==
    [][pc = "prune" =>
         \A pi \in Pixels :
            /\ Len(pixel_o'[pi]) = Len(pixel_o[pi]) - 1
            /\ Cardinality(removed(pi)) = 1
            /\ finite(likelihoods[pi]) =>
                  \A r \in removed(pi) : \A k \in 1 .. Len(likelihoods[pi]) :
                     likelihoods[pi][r] <= likelihoods[pi][k]]_vars

\* C2: after i completed iterations every pixel holds NUM_HYPOTHESISES - i
\* hypotheses in each of its four rows, i is at most NUM_HYPOTHESISES - 1, and
\* so no pixel ever holds fewer than one
C2_HypothesisCount ==
    /\ iteration \in 0 .. NUM_HYPOTHESISES - 1
    /\ \A pi \in Pixels :
          /\ Len(pixel_o[pi]) = NUM_HYPOTHESISES - iteration
          /\ Len(pixel_w[pi]) = NUM_HYPOTHESISES - iteration
          /\ Len(pixel_sigma[pi]) = NUM_HYPOTHESISES - iteration
          /\ Len(pixel_g[pi]) = NUM_HYPOTHESISES - iteration
          /\ Len(pixel_o[pi]) >= 1

\* C2: a prune has happened and the loop goes on with more than one pixel
C2_Witness ==
    /\ iteration >= 1
    /\ pc = "windows"
    /\ NUM_PIXEL >= 2

\* C3: after a prune the survivors of every pixel stand in order of descending
\* likelihood (as evaluated in this iteration, on a row of finite
\* likelihoods), so rank 0 is the survivor with the greatest likelihood
C3_SurvivorsDescending ==
    [][pc = "prune" =>
         \A pi \in Pixels :
            finite(likelihoods[pi]) =>
               \A j, k \in 1 .. Len(pixel_o'[pi]) :
                  j < k => likelihoods[pi][rank_before(pi, j)]
                             >= likelihoods[pi][rank_before(pi, k)]]_vars

\* C4: when the loop has ended, NUM_HYPOTHESISES - 1 iterations are complete
\* and every pixel holds exactly one hypothesis
C4_EndsWithOneHypothesis ==
    pc \in {"done", "error"} =>
       /\ iteration = NUM_HYPOTHESISES - 1
       /\ \A pi \in Pixels : Len(pixel_o[pi]) = 1

\* the window pass is at its last window and has run it
pass_complete ==
    /\ window_y + window_step > MACRO_REGION_Y[2]
    /\ window_x + window_step > MACRO_REGION_X[2]
    /\ pixel_indizes_patch = window_indizes(window_x, window_y)

\* C5: the likelihoods are evaluated after the window pass of the iteration
\* and with the spectra of the iteration before; the spectrum refresh comes
\* after the likelihood evaluation and reads rows not yet pruned in this
\* iteration; the prune comes after the refresh and uses the likelihoods
\* evaluated before it
C5_StatementOrder ==
    /\ pc = "likelihoods" => pass_complete /\ beta_epoch = iteration
    /\ pc = "betas" =>
          /\ pass_complete
          /\ lik_epoch = iteration
          /\ beta_epoch = iteration
          /\ \A pi \in Pixels :
                /\ Len(likelihoods[pi]) = NUM_HYPOTHESISES - iteration
                /\ Len(pixel_w[pi]) = NUM_HYPOTHESISES - iteration
    /\ pc = "prune" =>
          /\ pass_complete
          /\ lik_epoch = iteration
          /\ beta_epoch = iteration + 1
          /\ \A pi \in Pixels : Len(likelihoods[pi]) = Len(pixel_o[pi])
    /\ pc = "windows" => beta_epoch = iteration

\* C5: the second iteration has come to its prune
C5_Witness ==
    /\ pc = "prune"
    /\ iteration >= 1

\* the rank-0 illumination estimates the statistics of the window patch would
\* read had no pixel but A been refined since the pass began
g_without_others(A, patch) ==
    [i \in 1 .. Len(patch) |->
        IF patch[i] = A THEN pixel_g[A][INDEX_BEST_HYPOTHESIS + 1].v
        ELSE pass_g[patch[i]]]

\* C6: what the refinement of a pixel A reads does not depend on what the
\* refinement of another pixel has written in the same pass: the illumination
\* distribution of the window about to run is the one that the estimates the
\* other pixels had when the pass began would give
C6_RefinementReadsNoOtherPixel ==
    pc = "windows" =>
       LET patch == window_indizes(window_x, window_y)
       IN  \A i \in 1 .. Len(patch) :
              estimate_g_distriution(best_g(pixel_g, patch), best_of(pixel_w, patch))
                = estimate_g_distriution(g_without_others(patch[i], patch),
                                         best_of(pixel_w, patch))

\* C6, amended: the illumination distribution of a window is estimated once,
\* before any of its pixels is refined, from the rank-0 estimates as the
\* earlier windows of the pass left them; with it, the refinement of a pixel
\* of the window reads only the rows of that pixel and writes only its
\* reflectance and illumination rows, so the pixels of one window give the
\* same result in any order; the pixels outside the window keep their rows
C6_RefinementWithinWindow ==
    [][pc = "windows" =>
         LET patch == window_indizes(window_x, window_y)
             d == estimate_g_distriution(best_g(pixel_g, patch), best_of(pixel_w, patch))
             inside == { patch[i] : i \in 1 .. Len(patch) }
         IN  /\ mu_g_patch' = d.mu_g
             /\ std_g_patch' = d.std_g
             /\ \A pi \in inside :
                   LET r == refine_pixel(pi, pixel_sigma[pi], pixel_g[pi], d.mu_g, d.std_g)
                   IN  pixel_sigma'[pi] = r.sigma /\ pixel_g'[pi] = r.g
             /\ \A pi \in Pixels \ inside :
                   pixel_sigma'[pi] = pixel_sigma[pi] /\ pixel_g'[pi] = pixel_g[pi]
             /\ pixel_o' = pixel_o
             /\ pixel_w' = pixel_w]_vars

\* C6: a window of several pixels has run that overlaps the window before it,
\* and the estimate of one of its pixels is no longer the one of the pass's start
C6_Witness ==
    /\ pc = "windows"
    /\ OVERLAPPING >= 1
    /\ Len(pixel_indizes_patch) >= 2
    /\ window_y > MACRO_REGION_Y[1]
    /\ \E i \in 1 .. Len(pixel_indizes_patch) :
          pixel_g[pixel_indizes_patch[i]][INDEX_BEST_HYPOTHESIS + 1].v
            # pass_g[pixel_indizes_patch[i]]

\* the pixels whose rank-0 hypothesis names the light source
voting(light_source) ==
    { pi \in Pixels : pixel_w[pi][INDEX_BEST_HYPOTHESIS + 1] = light_source }

\* C7: when no rank-0 hypothesis names a light source at the spectrum
\* refresh, the refresh ends without error and sets the spectrum of that light
\* source to its prior mean
C7_NoVoteGivesPriorMean ==
    [][pc = "betas" =>
         \A w \in LightSources :
            voting(w) = {} =>
               /\ pc' # "error"
               /\ error' = "none"
               /\ beta_hats'[w] = beta_distribution_mean(w)]_vars

\* the pixels of the image inside the window at (window_x, window_y)
in_window(pi) ==
    LET x == pi % IMAGE_WIDTH
        y == pi \div IMAGE_WIDTH
    IN  /\ window_x <= x /\ x < window_x + WINDOW_X_SIZE
        /\ window_y <= y /\ y < window_y + WINDOW_Y_SIZE

\* the pixels of the window whose rank-0 hypothesis names the light source
window_voting(light_source) == { pi \in voting(light_source) : in_window(pi) }

\* sum over the pixels V of the squared distance of the rank-0 illumination to m
RECURSIVE sum_squares(_, _)
sum_squares(V, m) ==
    IF V = {} THEN 0
    ELSE LET pi == CHOOSE p \in V : TRUE
             d == pixel_g[pi][INDEX_BEST_HYPOTHESIS + 1].v - m
         IN  d * d + sum_squares(V \ {pi}, m)

\* sum over the pixels V of the rank-0 illumination
RECURSIVE sum_illumination(_)
sum_illumination(V) ==
    IF V = {} THEN 0
    ELSE LET pi == CHOOSE p \in V : TRUE
         IN  pixel_g[pi][INDEX_BEST_HYPOTHESIS + 1].v + sum_illumination(V \ {pi})

\* C8: the illumination distribution a window is refined with is, for a light
\* source no pixel of the window votes for, mean 0 and standard deviation 1,
\* and else the mean and standard deviation of the rank-0 illumination of
\* exactly the voting pixels of the window; the estimation raises no error
C8_WindowDistribution ==
    [][pc = "windows" =>
         /\ error' = "none"
         /\ \A w \in LightSources :
               LET V == window_voting(w)
                   m == sum_illumination(V) \div Cardinality(V)
               IN  IF V = {}
                   THEN mu_g_patch'[w] = 0 /\ std_g_patch'[w] = 1
                   ELSE /\ mu_g_patch'[w] = m
                        /\ std_g_patch'[w] = ISqrt(sum_squares(V, m) \div Cardinality(V))]_vars

\* C8: after the first prune a window with pixels has run in which one light
\* source had votes and a later light source had none
C8_Witness ==
    /\ pixel_indizes_patch # << >>
    /\ \E v, w \in LightSources :
          /\ v < w
          /\ mu_g_patch[v] > 0
          /\ mu_g_patch[w] = 0 /\ std_g_patch[w] = 1
    /\ iteration >= 1

\* C9: every pixel of a window lies inside the region of interest
\* (MACRO_REGION_X[0] <= x < MACRO_REGION_X[1], and so for y), so no pixel
\* outside the region is refined
C9_WindowInsideRegion ==
    \A i \in 1 .. Len(pixel_indizes_patch) :
       LET x == pixel_indizes_patch[i] % IMAGE_WIDTH
           y == pixel_indizes_patch[i] \div IMAGE_WIDTH
       IN  /\ MACRO_REGION_X[1] <= x /\ x < MACRO_REGION_X[2]
           /\ MACRO_REGION_Y[1] <= y /\ y < MACRO_REGION_Y[2]

\* C10: the pairs of a pixel are pairwise distinct and every estimate stands
\* at the rank of the pair it was computed for; a step never gives a pixel a
\* pair it did not hold, and the refinement leaves materials and light
\* sources as they are
C10_HypothesisIdentity ==
    /\ [](\A pi \in Pixels :
            /\ Cardinality(pairs(pixel_o[pi], pixel_w[pi])) = Len(pixel_o[pi])
            /\ \A r \in 1 .. Len(pixel_o[pi]) :
                  /\ pixel_sigma[pi][r].of = << pixel_o[pi][r], pixel_w[pi][r] >>
                  /\ pixel_g[pi][r].of = << pixel_o[pi][r], pixel_w[pi][r] >>)
    /\ [][/\ \A pi \in Pixels :
               pairs(pixel_o'[pi], pixel_w'[pi]) \subseteq pairs(pixel_o[pi], pixel_w[pi])
          /\ pc = "windows" => pixel_o' = pixel_o /\ pixel_w' = pixel_w]_vars

\* C10: a prune has reordered the rows of a pixel and a refinement pass has
\* written estimates after it
C10_Witness ==
    /\ iteration >= 1
    /\ pc = "likelihoods"
    /\ \E pi \in Pixels : \E r \in 1 .. Len(pixel_g[pi]) :
          pixel_g[pi][r].of # MATERIALS_LIGHT_SOURCE_COMBINATIONS(r - 1)

\* all pixels of the image have the same observed color
uniform_image == \A pi, pj \in Pixels : img[pi] = img[pj]

\* the squared color distance of the mean color of (o, w) to the color of pixel pi
chart_distance(pi, o, w) == color_angle_distance(img[pi], mean_color_chart(o, w))

\* C11: on an image of one color the run ends converged, and then every
\* pixel carries the same (material, light source) label, a combination
\* whose mean color is nearest to the color of the pixels
C11_UniformImageConverges ==
    (uniform_image /\ pc \in {"done", "error"}) =>
       /\ pc = "done"
       /\ \A pi \in Pixels :
             /\ Len(pixel_o[pi]) = 1
             /\ pixel_o[pi] = pixel_o[0] /\ pixel_w[pi] = pixel_w[0]
             /\ \A o \in Materials, w \in LightSources :
                   chart_distance(pi, pixel_o[pi][1], pixel_w[pi][1])
                     <= chart_distance(pi, o, w)

\* C12: the likelihood evaluation of an iteration scores the illumination of
\* a hypothesis under the distribution estimated, at that time, from the
\* pixels whose rank-0 hypothesis names its light source
C12_DistributionReestimated ==
    [][pc = "likelihoods" =>
         \A pi \in Pixels : \A hi \in 1 .. Len(pixel_o[pi]) :
            likelihoods'[pi][hi]
              = log_likelihood_under(pi, hi, g_distribution_now.mu_g,
                                     g_distribution_now.std_g)]_vars

\* C12, amended: the illumination distribution of the likelihood evaluation is
\* the one estimated before the loop from the rank-0 hypotheses of the
\* initialization; no step of the loop changes it, and every iteration scores
\* the illumination of every hypothesis under it
C12_DistributionFromInit ==
    /\ mu_g = g_distribution_now.mu_g
    /\ std_g = g_distribution_now.std_g
    /\ [][/\ mu_g' = mu_g
          /\ std_g' = std_g
          /\ pc = "likelihoods" =>
                \A pi \in Pixels : \A hi \in 1 .. Len(pixel_o[pi]) :
                   likelihoods'[pi][hi] = log_likelihood_under(pi, hi, mu_g, std_g)]_vars

\* C12: the likelihoods of a later iteration have been evaluated while the
\* rank-0 estimates give another distribution than the one in use
C12_Witness ==
    /\ pc = "betas"
    /\ iteration >= 1
    /\ g_distribution_now # [mu_g |-> mu_g, std_g |-> std_g]
    /\ \E pi \in Pixels : finite(likelihoods[pi])

\* sum over the pixels V of the rank-0 term g^2 S sigma_p S^T of the refresh
RECURSIVE sum_h(_)
sum_h(V) ==
    IF V = {} THEN 0
    ELSE LET pi == CHOOSE p \in V : TRUE
             g0 == pixel_g[pi][INDEX_BEST_HYPOTHESIS + 1].v
             S0 == pixel_sigma[pi][INDEX_BEST_HYPOTHESIS + 1].v
         IN  g0 * g0 * sigma_p * Dot(S0, S0) + sum_h(V \ {pi})

\* sum over the pixels V of the rank-0 term g S sigma_p pixel of the refresh
RECURSIVE sum_b(_)
sum_b(V) ==
    IF V = {} THEN 0
    ELSE LET pi == CHOOSE p \in V : TRUE
             g0 == pixel_g[pi][INDEX_BEST_HYPOTHESIS + 1].v
             S0 == pixel_sigma[pi][INDEX_BEST_HYPOTHESIS + 1].v
         IN  g0 * sigma_p * Dot(S0, img[pi]) + sum_b(V \ {pi})

\* the spectrum of light source w from the rank-0 hypotheses of its voters alone
spectrum_of_voters(w) ==
    LET V == voting(w)
        n == Cardinality(V)
    IN  (F2 * (sum_b(V) + n * beta_distribution_prec(w) * beta_distribution_mean(w)))
          \div (sum_h(V) + F2 * n * beta_distribution_prec(w))

\* C13: at a spectrum refresh every pixel votes for exactly one light source,
\* the one its rank-0 hypothesis names, the votes of all light sources add up
\* to the number of pixels, and the spectrum written for a light source is the
\* one the rank-0 reflectance and illumination of its voters give: no
\* hypothesis of a lower rank has a part in it
C13_SingleVote ==
    [][pc = "betas" =>
         /\ \A pi \in Pixels :
               Cardinality({ w \in LightSources : pi \in voting(w) }) = 1
         /\ SumSeq([i \in 1 .. NUM_LIGHT_SOURCES |-> Cardinality(voting(i - 1))])
              = NUM_PIXEL
         /\ \A w \in LightSources :
               (\A v \in 0 .. w : voting(v) # {}) =>
                  beta_hats'[w] = spectrum_of_voters(w)]_vars

\* C13: a refresh of a later iteration has written the spectra of all light
\* sources, from several pixels that hold hypotheses of the other light source
\* at lower ranks
C13_Witness ==
    /\ pc = "prune"
    /\ iteration >= 1
    /\ NUM_PIXEL >= 2
    /\ \A w \in LightSources : voting(w) # {}
    /\ \E pi \in Pixels : \E r \in 2 .. Len(pixel_w[pi]) :
          pixel_w[pi][r] # pixel_w[pi][INDEX_BEST_HYPOTHESIS + 1]

\* C14: before the first prune every pixel holds NUM_HYPOTHESISES hypotheses,
\* every (material, light source) combination once, in order of non-decreasing
\* squared distance of the combination's mean color to the pixel's color, so
\* no combination is nearer to the pixel than the one at rank 0
C14_InitialRanking ==
    iteration = 0 =>
       \A pi \in Pixels :
          /\ Len(pixel_o[pi]) = NUM_HYPOTHESISES
          /\ Len(pixel_w[pi]) = NUM_HYPOTHESISES
          /\ pairs(pixel_o[pi], pixel_w[pi]) = Materials \X LightSources
          /\ \A j, k \in 1 .. NUM_HYPOTHESISES :
                j < k => chart_distance(pi, pixel_o[pi][j], pixel_w[pi][j])
                           <= chart_distance(pi, pixel_o[pi][k], pixel_w[pi][k])
          /\ \A o \in Materials, w \in LightSources :
                chart_distance(pi, pixel_o[pi][1], pixel_w[pi][1])
                  <= chart_distance(pi, o, w)

\* C14: the hypotheses of the initialization are in use, in an image with
\* pixels that rank the combinations differently, none of them in the order
\* of the combinations
C14_Witness ==
    /\ iteration = 0
    /\ pc = "likelihoods"
    /\ \E pi, pj \in Pixels :
          /\ pixel_w[pi][1] # pixel_w[pj][1]
          /\ << pixel_o[pi][1], pixel_w[pi][1] >> # MATERIALS_LIGHT_SOURCE_COMBINATIONS(0)
          /\ chart_distance(pi, pixel_o[pi][1], pixel_w[pi][1])
               < chart_distance(pi, pixel_o[pi][2], pixel_w[pi][2])

\* no entry of a likelihood row is nan
nan_free(row) == \A r \in 1 .. Len(row) : row[r] # NaN

pruned(keys, row) == gather(row, SubSeq(sorted(keys), 1, Len(row) - 1))

\* the (material, light source) pairs of pixel pi, by rank
hypotheses(pi) == [r \in 1 .. Len(pixel_o[pi]) |-> << pixel_o[pi][r], pixel_w[pi][r] >>]

\* C16: the outcome of a prune does not depend on the order of the list: had
\* the hypotheses of a pixel, each with its likelihood (a row without nan,
\* equal likelihoods included), stood in any other order, the prune would
\* leave the same survivors in the same order
C16_PruneIndependentOfOrder ==
    pc = "prune" =>
       \A pi \in Pixels :
          nan_free(likelihoods[pi]) =>
             \A perm \in Permutations(1 .. Len(pixel_o[pi])) :
                pruned([r \in 1 .. Len(pixel_o[pi]) |-> likelihoods[pi][perm[r]]],
                       [r \in 1 .. Len(pixel_o[pi]) |-> hypotheses(pi)[perm[r]]])
                  = pruned(likelihoods[pi], hypotheses(pi))

\* the window starts of the scheduler along one axis of the region
window_starts(region) ==
    { region[1] + k * window_step : k \in 0 .. ((region[2] - region[1]) \div window_step) }

\* pixel pi lies in at least one window of the pass
covered(pi) ==
    LET x == pi % IMAGE_WIDTH
        y == pi \div IMAGE_WIDTH
    IN  \E wx \in window_starts(MACRO_REGION_X), wy \in window_starts(MACRO_REGION_Y) :
           /\ wx <= x /\ x < wx + WINDOW_X_SIZE
           /\ wy <= y /\ y < wy + WINDOW_Y_SIZE

\* hypothesis r of pixel pi holds the estimates the initialization gives its pair
initial_estimates(pi, r) ==
    LET o == pixel_o[pi][r]
        w == pixel_w[pi][r]
    IN  /\ pixel_sigma[pi][r].v = Rs_mean(o, w)
        /\ pixel_g[pi][r].v = Dot(img[pi], mean_color_chart(o, w))
                                \div color_metric(mean_color_chart(o, w))

\* C17: a pixel no window covers holds, for every hypothesis it still has, the
\* reflectance and illumination of the initialization and as many hypotheses
\* as every other pixel; the likelihood evaluation scores every hypothesis of
\* every pixel, the prune takes one hypothesis from every pixel, and the
\* spectrum written for the light source an uncovered pixel votes for is the
\* one of all its voters, the uncovered pixel among them
C17_UncoveredPixels ==
    /\ [](\A pi \in Pixels :
            ~covered(pi) =>
               /\ Len(pixel_o[pi]) = NUM_HYPOTHESISES - iteration
               /\ \A r \in 1 .. Len(pixel_o[pi]) : initial_estimates(pi, r))
    /\ [][/\ pc = "likelihoods" =>
                \A pi \in Pixels : Len(likelihoods'[pi]) = Len(pixel_o[pi])
          /\ pc = "prune" =>
                \A pi \in Pixels : Len(pixel_o'[pi]) = Len(pixel_o[pi]) - 1
          /\ (pc = "betas" /\ pc' = "prune") =>
                \A pi \in Pixels :
                   ~covered(pi) =>
                      /\ pi \in voting(pixel_w[pi][INDEX_BEST_HYPOTHESIS + 1])
                      /\ beta_hats'[pixel_w[pi][INDEX_BEST_HYPOTHESIS + 1]]
                           = spectrum_of_voters(pixel_w[pi][INDEX_BEST_HYPOTHESIS + 1])]_vars

\* C17: the second iteration has come to its prune in an image with a pixel
\* no window covers and a pixel whose estimates the refinement has changed
C17_Witness ==
    /\ pc = "prune"
    /\ iteration >= 1
    /\ \E pi \in Pixels : ~covered(pi)
    /\ \E pi \in Pixels : covered(pi) /\ ~initial_estimates(pi, 1)

====
